---- MODULE Spec2Model ----
(***************************************************************************)
(* A model of footable: Table construction and normalisation               *)
(* (footable.py), the header model (HeadRow, HeadCell), the row            *)
(* annotations (SubHeading, LineSpacing) and the TeX renderer              *)
(* (renderers.py).                                                         *)
(*                                                                         *)
(* Values.  A data cell is a record [k, n, s]: k = "num" for a finite      *)
(* number n, k = "nan" for a floating point NaN, k = "str" for a text s    *)
(* (a sequence of characters).  An optional argument is None (<<>>) or     *)
(* Some(v) (<<v>>).  An output line is a record whose field `kind` names   *)
(* the print statement that wrote it.                                      *)
(***************************************************************************)
EXTENDS Integers, Sequences, FiniteSets, TLC

VARIABLES
    phase,        \* "new" before Table(...), "ready" after it returned, "failed" if it raised
    args,         \* the arguments of the Table(...) call
    error,        \* the exception raised by the last call ("" if it returned)
    nrow,         \* Table.nrow
    ncol_head,    \* Table.ncol_head
    ncol_data,    \* Table.ncol_data
    ncol,         \* Table.ncol
    data,         \* Table.data: label columns followed by data columns
    columns,      \* Table.columns
    header,       \* Table.__header
    subheadings,  \* Table.subheadings
    linespacing,  \* Table.linespacing
    kwargs,       \* Table.kwargs: [sep, nan_char]
    renderer,     \* Table.renderer: [booktabs, cmidrule_trim]
    pc,           \* per sink: the phase its render call is in
    row,          \* per sink: the loop index i of render_data
    file          \* per sink: the lines printed to it

vars == <<phase, args, error, nrow, ncol_head, ncol_data, ncol, data, columns,
          header, subheadings, linespacing, kwargs, renderer, pc, row, file>>

table == <<nrow, ncol_head, ncol_data, ncol, data, columns, header,
           subheadings, linespacing, kwargs, renderer>>

----------------------------------------------------------------------------
(* Bounds of the model *)

MaxRow == 2
MaxColData == 2
MaxSepRow == 5
MaxSpan == 3
MaxHeaderRows == 2
MaxSubHeadings == 2

----------------------------------------------------------------------------
(* Values *)

None == <<>>
Some(v) == <<v>>

Num(n) == [k |-> "num", n |-> n, s |-> <<>>]
NaN == [k |-> "nan", n |-> 0, s |-> <<>>]
Str(s) == [k |-> "str", n |-> 0, s |-> s]

\* np.isreal on one cell: true of every number (NaN included), false of text
np_isreal(v) == v.k \in {"num", "nan"}

np_isnan(v) == v.k = "nan"

Range(q) == {q[i] : i \in DOMAIN q}

RECURSIVE Repeat(_, _)
Repeat(q, n) == IF n <= 0 THEN <<>> ELSE q \o Repeat(q, n - 1)

Transpose(m) ==
    [j \in 1..Len(m[1]) |-> [i \in 1..Len(m) |-> m[i][j]]]

----------------------------------------------------------------------------
(* enums.py *)

\* Alignment.parse on a string: decided by its first character
Alignment_parse(value) ==
    CASE value \in {"l", "left"} -> "left"
      [] value \in {"c", "center"} -> "center"
      [] value \in {"r", "right"} -> "right"

----------------------------------------------------------------------------
(* Table.__init__: consolidation of the horizontal rule arguments *)

\* np.arange(start, stop, step), step >= 1, as the set of its elements
np_arange(start, stop, step) ==
    {x \in start..(stop - 1) : (x - start) % step = 0}

\* np.unique of a sequence of row indices, as the set of its elements
np_unique(q) == Range(q)

\* sep_after is [isint, k, rows]: an integer k, or else an array `rows`
ConsolidateSep(sep_arg, sep_every, sep_after, n) ==
    IF sep_arg # None THEN Some(np_unique(sep_arg[1]))
    ELSE IF sep_every # None
         THEN Some(np_arange(sep_every[1] - 1, n, sep_every[1]))
    ELSE IF sep_after # None
         THEN IF sep_after[1].isint
              THEN Some(np_arange(0, n, sep_after[1].k))
              ELSE Some(np_unique(sep_after[1].rows))
    ELSE None

----------------------------------------------------------------------------
(* HeadCell, HeadRow, Table.append_header *)

\* HeadCell.__init__.  sep_arg is None, Some(TRUE) or Some(FALSE); the stored
\* sep is recorded by its truth value, the only way the renderer reads it.
HeadCell(text, span, align, sep_arg, placeholder) ==
    [text |-> IF placeholder THEN <<>> ELSE text,
     span |-> span,
     align |-> Alignment_parse(align),
     placeholder |-> placeholder,
     sep |-> (sep_arg = None /\ span > 1) \/ sep_arg = Some(TRUE)]

\* An item of a header argument: a HeadCell instance, or a bare text
BareText(text) == [bare |-> TRUE, text |-> text]
Cell(c) == [bare |-> FALSE, cell |-> c]

RECURSIVE SumSpan(_)
SumSpan(cells) ==
    IF cells = <<>> THEN 0 ELSE cells[1].span + SumSpan(Tail(cells))

\* The loop of HeadRow.__init__ on one item: a bare item becomes a HeadCell
WrapItem(c) ==
    IF c.bare THEN HeadCell(c.text, 1, "center", None, FALSE) ELSE c.cell

\* HeadRow with the placeholder put behind the cells
HeadRowTrailingPlaceholder(items, nhead) ==
    LET lead == IF nhead > 0
                THEN <<HeadCell(<<>>, nhead, "center", None, TRUE)>>
                ELSE <<>>
        cells == [i \in DOMAIN items |-> WrapItem(items[i])] \o lead
    IN [cells |-> cells, ncol |-> SumSpan(cells)]

\* HeadRow.__init__: an optional leading placeholder, then the items
HeadRow(items, nhead) ==
    LET lead == IF nhead > 0
                THEN <<HeadCell(<<>>, nhead, "center", None, TRUE)>>
                ELSE <<>>
        cells == lead \o [i \in DOMAIN items |-> WrapItem(items[i])]
    IN [cells |-> cells, ncol |-> SumSpan(cells)]

\* append_header without its last comparison of the spans
append_header_unchecked(hdr, items, nc, nhead) ==
    LET h1 == HeadRow(items, 0)
        h == IF h1.ncol # nc /\ nhead > 0 THEN HeadRow(items, nhead) ELSE h1
    IN [raised |-> FALSE, header |-> Append(hdr, h)]

\* Table.append_header: the header list after the call, and whether it raised
append_header(hdr, items, nc, nhead) ==
    LET h1 == HeadRow(items, 0)
        h == IF h1.ncol # nc /\ nhead > 0 THEN HeadRow(items, nhead) ELSE h1
    IN IF h.ncol # nc
       THEN [raised |-> TRUE, header |-> hdr]
       ELSE [raised |-> FALSE, header |-> Append(hdr, h)]

----------------------------------------------------------------------------
(* Table.__init__: row labels, alignment, formats, columns *)

\* as_list.  An argument that may be a scalar or a list is [islist, v, items].
Scalar(v) == [islist |-> FALSE, v |-> v, items |-> <<>>]
List(items) == [islist |-> TRUE, v |-> "", items |-> items]

as_list(val) == IF val.islist THEN val.items ELSE <<val.v>>

\* helpers.anything_to_list(x, force=True): None gives the empty list
anything_to_list(x) == IF x = None THEN <<>> ELSE x[1]

\* helpers.anything_to_tuple(x, force=True): None gives the empty tuple
anything_to_tuple(x) == IF x = None THEN <<>> ELSE x[1]

\* The row labels, given as a 2-d array: [raised, labels]
ShapeRowLabels(row_labels, n) ==
    LET r == Len(row_labels)
        c == Len(row_labels[1])
    IN IF r # n
       THEN IF c = n
            THEN [raised |-> FALSE, labels |-> Transpose(row_labels)]
            ELSE [raised |-> TRUE, labels |-> row_labels]
       ELSE [raised |-> FALSE, labels |-> row_labels]

\* np.hstack((row_labels, data))
np_hstack(labels, d) == [i \in DOMAIN d |-> labels[i] \o d[i]]

\* BroadcastAlign with a single value projected onto the label columns too
BroadcastAlignAllColumns(align_arg, nhead, ndata) ==
    IF align_arg # None
    THEN LET a0 == [i \in DOMAIN as_list(align_arg[1]) |->
                        Alignment_parse(as_list(align_arg[1])[i])]
             a1 == IF Len(a0) = 1 THEN Repeat(a0, nhead + ndata) ELSE a0
             a2 == IF Len(a1) = ndata /\ nhead > 0
                   THEN Repeat(<<"l">>, nhead) \o a1
                   ELSE a1
         IN [raised |-> Len(a2) # nhead + ndata, align |-> a2]
    ELSE [raised |-> FALSE,
          align |-> Repeat(<<"l">>, nhead) \o Repeat(<<"r">>, ndata)]

\* The alignment of every column: [raised, align]
BroadcastAlign(align_arg, nhead, ndata) ==
    IF align_arg # None
    THEN LET a0 == [i \in DOMAIN as_list(align_arg[1]) |->
                        Alignment_parse(as_list(align_arg[1])[i])]
             a1 == IF Len(a0) = 1
                   THEN Repeat(<<"l">>, nhead) \o Repeat(a0, ndata)
                   ELSE a0
             a2 == IF Len(a1) = ndata /\ nhead > 0
                   THEN Repeat(<<"l">>, nhead) \o a1
                   ELSE a1
         IN [raised |-> Len(a2) # nhead + ndata, align |-> a2]
    ELSE [raised |-> FALSE,
          align |-> Repeat(<<"l">>, nhead) \o Repeat(<<"r">>, ndata)]

\* np.where(isreal, float_fmt, str_fmt) over the first cells of a row
DefaultFmt(cells, float_fmt, str_fmt) ==
    [j \in DOMAIN cells |-> IF np_isreal(cells[j]) THEN float_fmt ELSE str_fmt]

\* The format of every column: [raised, fmt]
BroadcastFmt(fmt_arg, d, nhead, ndata, float_fmt, str_fmt) ==
    IF fmt_arg # None
    THEN LET f0 == as_list(fmt_arg[1])
             f1 == IF Len(f0) = 1 THEN Repeat(f0, ndata) ELSE f0
             f2 == IF Len(f1) = ndata /\ nhead > 0
                   THEN DefaultFmt(SubSeq(d[1], 1, nhead), float_fmt, str_fmt)
                        \o f1
                   ELSE f1
         IN [raised |-> Len(f2) # nhead + ndata, fmt |-> f2]
    ELSE [raised |-> FALSE, fmt |-> DefaultFmt(d[1], float_fmt, str_fmt)]

\* isreal of Table.__init__: per column, whether every cell is a number
ColumnIsReal(d, j) == \A i \in DOMAIN d : np_isreal(d[i][j])

\* Column.__init__
Column(align, fmt, isnumeric) ==
    [align |-> Alignment_parse(align), fmt |-> fmt, isnumeric |-> isnumeric]

Min(x, y) == IF x < y THEN x ELSE y

\* zip(align, fmt, isreal) into Column objects
MakeColumns(align, fmt, d) ==
    [j \in 1..Min(Min(Len(align), Len(fmt)), Len(d[1])) |->
        Column(align[j], fmt[j], ColumnIsReal(d, j))]

\* TeXFormat.__init__
TeXFormat(booktabs, cmidrule_trim) ==
    [booktabs |-> booktabs, cmidrule_trim |-> cmidrule_trim]

\* SubHeading.__init__ lowers the style; the styles of the model
str_lower(s) ==
    CASE s = "Bold" -> "bold"
      [] s = "Italic" -> "italic"
      [] s = "Underline" -> "underline"
      [] OTHER -> s

SubHeading(text, r, style, align, rule, spacing) ==
    [text |-> text, row |-> r,
     style |-> IF style # "" THEN str_lower(style) ELSE "",
     align |-> align, rule |-> rule, spacing |-> spacing]

LineSpacing(r, height) == [row |-> r, height |-> height]

\* Table.__init__ as a whole: the fields of the new Table, or the exception
NewTable(a) ==
    LET n == Len(a.data)
        nd == Len(a.data[1])
        sp == ConsolidateSep(a.sep, a.sep_every, a.sep_after, n)
        lbl == IF a.row_labels # None
               THEN ShapeRowLabels(a.row_labels[1], n)
               ELSE [raised |-> FALSE, labels |-> <<>>]
        nh == IF a.row_labels # None /\ ~lbl.raised
              THEN Len(lbl.labels[1]) ELSE 0
        d == IF nh > 0 THEN np_hstack(lbl.labels, a.data) ELSE a.data
        nc == nh + nd
        hd == IF a.header # None
              THEN append_header(<<>>, a.header[1], nc, nh)
              ELSE [raised |-> FALSE, header |-> <<>>]
        al == BroadcastAlign(a.align, nh, nd)
        fm == BroadcastFmt(a.fmt, d, nh, nd, a.float_fmt, a.str_fmt)
        raised == IF lbl.raised THEN "ValueError: row labels"
                  ELSE IF hd.raised THEN "Exception: header"
                  ELSE IF al.raised THEN "ValueError: alignment"
                  ELSE IF fm.raised THEN "ValueError: format"
                  ELSE ""
    IN [raised |-> raised,
        nrow |-> n, ncol_head |-> nh, ncol_data |-> nd, ncol |-> nc,
        data |-> d,
        header |-> hd.header,
        columns |-> IF raised = "" THEN MakeColumns(al.align, fm.fmt, d)
                    ELSE <<>>,
        kwargs |-> [sep |-> sp, nan_char |-> a.nan_char],
        renderer |-> a.output_fmt,
        subheadings |-> anything_to_list(a.subheadings),
        linespacing |-> anything_to_list(a.linespacing)]

----------------------------------------------------------------------------
(* renderers.py: text helpers *)

\* tex_escape: % and & get a backslash unless they start the text or follow one
RECURSIVE tex_escape_from(_, _)
tex_escape_from(text, p) ==
    IF p > Len(text) THEN <<>>
    ELSE (IF p > 1 /\ text[p] \in {"%", "&"} /\ text[p - 1] # "\\"
          THEN <<"\\", text[p]>>
          ELSE <<text[p]>>) \o tex_escape_from(text, p + 1)

tex_escape(text) == tex_escape_from(text, 1)

\* The re.sub of render_data over the finished line, seen from one text field:
\* a % gets a backslash unless a backslash precedes it or it starts the line
RECURSIVE percent_escape_from(_, _, _)
percent_escape_from(text, p, first) ==
    IF p > Len(text) THEN <<>>
    ELSE (IF text[p] = "%" /\ (IF p > 1 THEN text[p - 1] # "\\" ELSE ~first)
          THEN <<"\\", "%">>
          ELSE <<text[p]>>) \o percent_escape_from(text, p + 1, first)

\* _apply_style: [raised, text]; the styled text keeps the style as its mark-up
apply_style(text, style) ==
    IF style = "" THEN [raised |-> FALSE, style |-> "", text |-> text]
    ELSE IF str_lower(style) = "italic"
         THEN [raised |-> FALSE, style |-> "textit", text |-> text]
    ELSE IF str_lower(style) = "bold"
         THEN [raised |-> FALSE, style |-> "textbf", text |-> text]
    ELSE [raised |-> TRUE, style |-> "", text |-> text]

\* str.format of one value with a format specifier raises ValueError when the
\* presentation type does not suit the value: "s" takes text only, the number
\* types ("g", ".2f") take numbers only
NumberFormats == {"g", ".2f"}

FormatRaises(fmt, v) ==
    \/ fmt \in NumberFormats /\ ~np_isreal(v)
    \/ fmt = "s" /\ np_isreal(v)

\* np.abs on one cell
np_abs(v) == IF v.k = "num" /\ v.n < 0 THEN Num(0 - v.n) ELSE v

\* An output line: the print statement that wrote it, the data row it belongs to
\* (-1 outside render_data's loop) and its fields
Line(kind, r, cells) == [kind |-> kind, row |-> r, cells |-> cells]

----------------------------------------------------------------------------
(* TeXFormat.render_preamble, render_header, render_epilogue *)

mappings(a) ==
    CASE a = "left" -> "l" [] a = "center" -> "c" [] a = "right" -> "r"

render_preamble(rnd, cols) ==
    <<Line("begin", -1, [j \in DOMAIN cols |-> [code |-> mappings(cols[j].align)]])>>
    \o (IF rnd.booktabs THEN <<Line("toprule", -1, <<>>)>> ELSE <<>>)

render_epilogue(rnd) ==
    (IF rnd.booktabs THEN <<Line("bottomrule", -1, <<>>)>> ELSE <<>>)
    \o <<Line("end", -1, <<>>)>>

render_hcell(hcell) ==
    [span |-> hcell.span, align |-> mappings(hcell.align),
     text |-> tex_escape(hcell.text)]

\* offset counted from 0
OffsetFromZero(cells, j) == SumSpan(SubSeq(cells, 1, j - 1))

\* offset before cell j of a header row: 1 + the spans to its left
Offset(cells, j) == 1 + SumSpan(SubSeq(cells, 1, j - 1))

\* rules_str of one header row
RECURSIVE RulesStr(_, _, _)
RulesStr(rnd, cells, j) ==
    IF j > Len(cells) THEN <<>>
    ELSE (IF cells[j].sep /\ rnd.booktabs /\ ~cells[j].placeholder
          THEN <<[trim |-> rnd.cmidrule_trim,
                  lo |-> Offset(cells, j),
                  hi |-> Offset(cells, j) + cells[j].span - 1]>>
          ELSE <<>>) \o RulesStr(rnd, cells, j + 1)

\* The lines of one header row: its cells, then its rules if there are any
RenderHeadRow(rnd, hrow) ==
    <<Line("hrow", -1, [j \in DOMAIN hrow.cells |-> render_hcell(hrow.cells[j])])>>
    \o (IF Len(RulesStr(rnd, hrow.cells, 1)) > 0
        THEN <<Line("cmidrule", -1, RulesStr(rnd, hrow.cells, 1))>>
        ELSE <<>>)

RECURSIVE RenderHeadRows(_, _)
RenderHeadRows(rnd, headers) ==
    IF headers = <<>> THEN <<>>
    ELSE RenderHeadRow(rnd, headers[1]) \o RenderHeadRows(rnd, Tail(headers))

\* A full rule after the header rows even when there are none
render_header_rule_always(rnd, headers) ==
    RenderHeadRows(rnd, headers)
    \o (IF rnd.booktabs THEN <<Line("midrule", -1, <<>>)>> ELSE <<>>)

render_header(rnd, headers) ==
    RenderHeadRows(rnd, headers)
    \o (IF rnd.booktabs /\ Len(headers) > 0
        THEN <<Line("midrule", -1, <<>>)>>
        ELSE <<>>)

----------------------------------------------------------------------------
(* TeXFormat.render_data: one iteration of the loop over the rows *)

\* _render_mid_rule: spec is "True", "False" or a width
render_mid_rule(spec, i) ==
    IF spec # "False" /\ spec # ""
    THEN IF spec = "True"
         THEN <<Line("sh_midrule", i, <<>>)>>
         ELSE <<Line("sh_midrule", i, <<[width |-> spec]>>)>>
    ELSE <<>>

\* One subheading: [raised, lines]; what was printed before _apply_style
\* raised stays printed
RenderSubHeading(sh, i, nc) ==
    LET spacing == anything_to_tuple(sh.spacing)
        rules == anything_to_tuple(sh.rule)
        above == (IF Len(spacing) > 1
                  THEN <<Line("sh_addlinespace", i, <<[height |-> spacing[1]]>>)>>
                  ELSE <<>>)
                 \o (IF Len(rules) > 0 THEN render_mid_rule(rules[1], i) ELSE <<>>)
        txt == apply_style(sh.text, sh.style)
        body == <<Line("subheading", i,
                       <<[text |-> txt.text, style |-> txt.style,
                          multicolumn |-> IF nc > 1 THEN nc ELSE 0,
                          align |-> IF nc > 1 THEN mappings(sh.align) ELSE ""]>>)>>
        below == (IF Len(rules) > 1 THEN render_mid_rule(rules[2], i) ELSE <<>>)
                 \o (IF Len(spacing) > 0
                     THEN <<Line("sh_addlinespace", i,
                                 <<[height |-> spacing[Len(spacing)]]>>)>>
                     ELSE <<>>)
    IN IF txt.raised
       THEN [raised |-> TRUE, lines |-> above]
       ELSE [raised |-> FALSE, lines |-> above \o body \o below]

RECURSIVE RenderSubHeadings(_, _, _)
RenderSubHeadings(shs, i, nc) ==
    IF shs = <<>> THEN [raised |-> FALSE, lines |-> <<>>]
    ELSE LET h == RenderSubHeading(shs[1], i, nc)
             rest == RenderSubHeadings(Tail(shs), i, nc)
         IN IF h.raised THEN h
            ELSE [raised |-> rest.raised, lines |-> h.lines \o rest.lines]

\* x = np.array([tex_escape(v) if isinstance(v, str) else v for v in data[i]]):
\* a new array holding row i with its texts escaped
RowCopy(d, i) ==
    [j \in DOMAIN d[i + 1] |->
        IF d[i + 1][j].k = "str" THEN Str(tex_escape(d[i + 1][j].s))
        ELSE d[i + 1][j]]

\* The data matrix after x[inum] = np.abs(x[inum]) in iteration i: x is the
\* array made by RowCopy, so the store does not reach Table.data
StoreAbsAliased(d, i, x, cols) ==
    [d EXCEPT ![i + 1] = [j \in DOMAIN x |->
                        IF cols[j].isnumeric THEN np_abs(x[j]) ELSE x[j]]]

StoreAbs(d, i, x, cols) == d

\* fix_nan of iteration i
FixNan(x, cols, nan_char) ==
    nan_char # None /\ \E j \in DOMAIN x : cols[j].isnumeric /\ np_isnan(x[j])

\* The value column j hands to str.format
FieldValue(x, cols, j) ==
    IF cols[j].isnumeric THEN np_abs(x[j]) ELSE x[j]

IsNanFixed(x, cols, nan_char, j) ==
    FixNan(x, cols, nan_char) /\ cols[j].isnumeric /\ np_isnan(x[j])

\* Characters of a format specifier of the model
StrLen(fmt) == IF fmt = ".2f" THEN 3 ELSE 1

\* Characters of '{arr[j]:fmt}' (one digit for j) and of the '{sgn[k]:s}'
\* put before it in a numeric column
ArrFieldLen == 9
SgnFieldLen == 10

FmtEntryLen(cols, j) ==
    (IF cols[j].isnumeric THEN SgnFieldLen ELSE 0) + ArrFieldLen
        + StrLen(cols[j].fmt)

RECURSIVE MaxEntryLen(_, _)
MaxEntryLen(cols, j) ==
    IF j > Len(cols) THEN 0
    ELSE IF FmtEntryLen(cols, j) > MaxEntryLen(cols, j + 1)
         THEN FmtEntryLen(cols, j)
         ELSE MaxEntryLen(cols, j + 1)

\* fmt_list_i[inan_fix] = nan_char: fmt_list is a numpy array of strings of
\* fixed width, the length of its longest entry, and an assignment keeps no
\* more than that many characters
NanEntry(cols, placeholder) ==
    SubSeq(placeholder, 1, Min(Len(placeholder), MaxEntryLen(cols, 1)))

\* sgn of a numeric column
SignOf(v) == IF v.k = "num" /\ v.n < 0 THEN "$-$" ELSE ""

\* Field j of the line of row x: the NaN placeholder, or the sign field and
\* the formatted value
Field(x, cols, nan_char, j) ==
    IF IsNanFixed(x, cols, nan_char, j)
    THEN [lit |-> NanEntry(cols, nan_char[1])]
    ELSE [sgn |-> IF cols[j].isnumeric THEN SignOf(x[j]) ELSE "",
          fmt |-> cols[j].fmt,
          val |-> IF x[j].k = "str"
                  THEN Str(percent_escape_from(x[j].s, 1, j = 1))
                  ELSE FieldValue(x, cols, j)]

\* fmt_str.format(arr=x, sgn=sgn) raises
RowFormatRaises(x, cols, nan_char) ==
    \E j \in DOMAIN x :
        /\ ~IsNanFixed(x, cols, nan_char, j)
        /\ FormatRaises(cols[j].fmt, FieldValue(x, cols, j))

\* do_sep without the test for the last row
DoSepEveryRow(sp, i, n) == sp # None /\ i \in sp[1]

\* do_sep of iteration i
DoSep(sp, i, n) == (sp # None /\ i \in sp[1]) /\ i # n - 1

SepLines(rnd, sp, i, n) ==
    IF rnd.booktabs /\ DoSep(sp, i, n)
    THEN <<Line("sep_midrule", i, <<>>)>>
    ELSE <<>>

RECURSIVE LineSpacingLines(_, _)
LineSpacingLines(lsp, i) ==
    IF lsp = <<>> THEN <<>>
    ELSE (IF lsp[1].row = i
          THEN <<Line("addlinespace", i, <<[height |-> lsp[1].height]>>)>>
          ELSE <<>>) \o LineSpacingLines(Tail(lsp), i)

RECURSIVE RowsEqual(_, _)
RowsEqual(q, i) ==
    IF q = <<>> THEN <<>>
    ELSE (IF q[1].row = i THEN <<q[1]>> ELSE <<>>) \o RowsEqual(Tail(q), i)

\* Iteration i (counted from 0, as in the source) of the loop of render_data:
\* [raised, lines, data]
RenderRow(rnd, d, cols, shs, lsp, kw, i) ==
    LET sh == RenderSubHeadings(RowsEqual(shs, i), i, Len(d[1]))
        x == RowCopy(d, i)
        cells == <<Line("cells", i,
                        [j \in DOMAIN x |-> Field(x, cols, kw.nan_char, j)])>>
    IN IF sh.raised
       THEN [raised |-> "ValueError: style", lines |-> sh.lines, data |-> d]
       ELSE IF RowFormatRaises(x, cols, kw.nan_char)
       THEN [raised |-> "ValueError: format", lines |-> sh.lines, data |-> d]
       ELSE [raised |-> "",
             lines |-> sh.lines \o cells \o SepLines(rnd, kw.sep, i, Len(d))
                       \o LineSpacingLines(lsp, i),
             data |-> StoreAbs(d, i, x, cols)]

\* The loop of render_data from iteration i on: [raised, lines]
RECURSIVE render_data(_, _, _, _, _, _, _)
render_data(rnd, d, cols, shs, lsp, kw, i) ==
    IF i >= Len(d) THEN [raised |-> "", lines |-> <<>>]
    ELSE LET r == RenderRow(rnd, d, cols, shs, lsp, kw, i)
         IN IF r.raised # ""
            THEN [raised |-> r.raised, lines |-> r.lines]
            ELSE LET rest == render_data(rnd, r.data, cols, shs, lsp, kw, i + 1)
                 IN [raised |-> rest.raised, lines |-> r.lines \o rest.lines]

\* TeXFormat.render of table t on an empty sink, run on its own: [raised, lines]
render(t) ==
    LET body == render_data(t.renderer, t.data, t.columns, t.subheadings,
                            t.linespacing, t.kwargs, 0)
    IN [raised |-> body.raised,
        lines |-> render_preamble(t.renderer, t.columns)
                  \o render_header(t.renderer, t.header)
                  \o body.lines
                  \o (IF body.raised = "" THEN render_epilogue(t.renderer)
                      ELSE <<>>)]

----------------------------------------------------------------------------
(* The state machine *)

\* The output sinks: one per render call, two calls may overlap
Sinks == {"s1", "s2"}

Running(s) == pc[s] \in {"header", "data"}

Quiet == \A s \in Sinks : ~Running(s)

Init ==
    /\ phase = "new"
    /\ args = <<>>
    /\ error = ""
    /\ nrow = 0 /\ ncol_head = 0 /\ ncol_data = 0 /\ ncol = 0
    /\ data = <<>>
    /\ columns = <<>>
    /\ header = <<>>
    /\ subheadings = <<>>
    /\ linespacing = <<>>
    /\ kwargs = [sep |-> None, nan_char |-> None]
    /\ renderer = TeXFormat(TRUE, TRUE)
    /\ pc = [s \in Sinks |-> "idle"]
    /\ row = [s \in Sinks |-> 0]
    /\ file = [s \in Sinks |-> <<>>]

\* Table(...): the whole of Table.__init__
Table__init__(a) ==
    /\ phase = "new"
    /\ args' = a
    /\ LET t == NewTable(a)
       IN IF t.raised = ""
          THEN /\ phase' = "ready"
               /\ error' = ""
               /\ nrow' = t.nrow
               /\ ncol_head' = t.ncol_head
               /\ ncol_data' = t.ncol_data
               /\ ncol' = t.ncol
               /\ data' = t.data
               /\ columns' = t.columns
               /\ header' = t.header
               /\ subheadings' = t.subheadings
               /\ linespacing' = t.linespacing
               /\ kwargs' = t.kwargs
               /\ renderer' = t.renderer
          ELSE /\ phase' = "failed"
               /\ error' = t.raised
               /\ UNCHANGED table
    /\ UNCHANGED <<pc, row, file>>

\* Table.append_header(items)
AppendHeader(items) ==
    /\ phase = "ready"
    /\ Quiet
    /\ UNCHANGED <<phase, args, nrow, ncol_head, ncol_data, ncol, data, columns,
                   subheadings, linespacing, kwargs, renderer, pc, row, file>>
    /\ Len(append_header(header, items, ncol, ncol_head).header) <= MaxHeaderRows
    /\ LET r == append_header(header, items, ncol, ncol_head)
       IN /\ header' = r.header
          /\ error' = IF r.raised THEN "Exception: header" ELSE ""

\* Table.add_subheading(sh), sh a sequence of SubHeading objects
AddSubheading(sh) ==
    /\ phase = "ready"
    /\ Quiet
    /\ Len(subheadings) + Len(sh) <= MaxSubHeadings
    /\ subheadings' = subheadings \o anything_to_tuple(Some(sh))
    /\ error' = ""
    /\ UNCHANGED <<phase, args, nrow, ncol_head, ncol_data, ncol, data, columns,
                   header, linespacing, kwargs, renderer, pc, row, file>>

\* Table.render(file) up to the end of render_preamble: the span assertions,
\* then the opening lines
Render(s) ==
    /\ phase = "ready"
    /\ pc[s] = "idle"
    /\ IF \A h \in DOMAIN header : header[h].ncol = ncol
       THEN /\ pc' = [pc EXCEPT ![s] = "header"]
            /\ file' = [file EXCEPT ![s] = @ \o render_preamble(renderer, columns)]
       ELSE /\ pc' = [pc EXCEPT ![s] = "AssertionError"]
            /\ file' = file
    /\ UNCHANGED <<phase, args, error, table, row>>

\* TeXFormat.render_header
RenderHeader(s) ==
    /\ pc[s] = "header"
    /\ file' = [file EXCEPT ![s] = @ \o render_header(renderer, header)]
    /\ pc' = [pc EXCEPT ![s] = "data"]
    /\ row' = [row EXCEPT ![s] = 0]
    /\ UNCHANGED <<phase, args, error, table>>

\* TeXFormat.render_data: one iteration of its loop
RenderData(s) ==
    /\ pc[s] = "data"
    /\ row[s] < nrow
    /\ LET r == RenderRow(renderer, data, columns, subheadings, linespacing,
                          kwargs, row[s])
       IN /\ file' = [file EXCEPT ![s] = @ \o r.lines]
          /\ data' = r.data
          /\ pc' = [pc EXCEPT ![s] = IF r.raised = "" THEN "data" ELSE r.raised]
          /\ row' = [row EXCEPT ![s] = IF r.raised = "" THEN @ + 1 ELSE @]
    /\ UNCHANGED <<phase, args, error, nrow, ncol_head, ncol_data, ncol, columns,
                   header, subheadings, linespacing, kwargs, renderer>>

\* TeXFormat.render_epilogue, after the last row
RenderEpilogue(s) ==
    /\ pc[s] = "data"
    /\ row[s] = nrow
    /\ file' = [file EXCEPT ![s] = @ \o render_epilogue(renderer)]
    /\ pc' = [pc EXCEPT ![s] = "done"]
    /\ UNCHANGED <<phase, args, error, table, row>>

RenderOn(S) ==
    \E s \in S :
        \/ Render(s)
        \/ RenderHeader(s)
        \/ RenderData(s)
        \/ RenderEpilogue(s)

----------------------------------------------------------------------------
(* The inputs of the calls *)

\* All matrices of r rows and c columns over the cells V
Matrices(r, c, V) == [1..r -> [1..c -> V]]

Filled(r, c, v) == [i \in 1..r |-> [j \in 1..c |-> v]]

\* Table(data) with every other argument at its default
DefaultArgs(d) ==
    [data |-> d, header |-> None, row_labels |-> None, fmt |-> None,
     float_fmt |-> "g", str_fmt |-> "s", align |-> None,
     subheadings |-> None, linespacing |-> None,
     sep_after |-> None, sep_every |-> None, sep |-> None,
     output_fmt |-> TeXFormat(TRUE, TRUE), nan_char |-> Some(<<"-", "-">>)]

\* Table(data, sep, sep_every, sep_after) over the horizontal rule arguments
\* and the number of rows
NextSep ==
    /\ phase = "new"
    /\ \E n \in 1..MaxSepRow,
          s \in {None, Some(<<1, 0, 1>>)},
          e \in {None} \cup {Some(k) : k \in 1..MaxSepRow},
          f \in {None, Some([isint |-> FALSE, k |-> 0, rows |-> <<2, 0, 2>>])}
                \cup {Some([isint |-> TRUE, k |-> k, rows |-> <<>>]) :
                         k \in 1..MaxSepRow} :
           Table__init__([DefaultArgs(Filled(n, 1, Num(2))) EXCEPT
                             !.sep = s, !.sep_every = e, !.sep_after = f])

SpecSep == Init /\ [][NextSep]_vars

\* Row labels for data of n rows, already a 2-d array: one label column of
\* mixed cells, the same lying on its side (to be transposed), and one of a
\* wrong length
LabelChoices(n) ==
    {None}
    \cup {Some(m) : m \in Matrices(n, 1, {Num(1), Str(<<"b">>)})}
    \cup {Some(m) : m \in Matrices(1, n, {Num(1), Str(<<"b">>)})}
    \cup {Some(Filled(n + 1, 1, Str(<<"b">>)))}

\* A list of L alignment codes, no two neighbours alike
AlignList(L) == [i \in 1..L |-> <<"c", "r", "l">>[(i % 3) + 1]]

\* A list of L explicit format specifiers
FmtList(L) == [i \in 1..L |-> <<".2f", "s", "g">>[(i % 3) + 1]]

AlignChoices ==
    {None, Some(Scalar("c")), Some(Scalar("r"))}
    \cup {Some(List(AlignList(L))) : L \in 0..(MaxColData + 2)}

FmtChoices ==
    {None, Some(Scalar(".2f"))}
    \cup {Some(List(FmtList(L))) : L \in 0..(MaxColData + 2)}

\* Data of n rows and c columns in which column p holds the cells col and
\* the other columns hold numbers and texts in turn
VariedColumn(n, c, p, col) ==
    [i \in 1..n |-> [j \in 1..c |->
        IF j = p THEN col[i]
        ELSE IF j % 2 = 0 THEN Num(2) ELSE Str(<<"a">>)]]

MixedData ==
    UNION {{VariedColumn(n, c, p, col) :
               c \in 1..MaxColData, p \in 1..MaxColData,
               col \in [1..n -> {Num(2), Str(<<"a">>)}]} :
           n \in 1..MaxRow}

AllLabelChoices == UNION {LabelChoices(n) : n \in 1..MaxRow}

\* Table(data, row_labels, align) and Table(data, row_labels, fmt) over the
\* cell types, the row labels and the lengths of align and fmt
NextCols ==
    /\ phase = "new"
    /\ \/ \E d \in MixedData, l \in AllLabelChoices, al \in AlignChoices :
             Table__init__([DefaultArgs(d) EXCEPT !.row_labels = l, !.align = al])
       \/ \E d \in MixedData, l \in AllLabelChoices, fm \in FmtChoices :
             Table__init__([DefaultArgs(d) EXCEPT !.row_labels = l, !.fmt = fm])

SpecCols == Init /\ [][NextCols]_vars

\* The cells of a header row: a bare text and HeadCell objects of every wider
\* span
HeaderCells ==
    {BareText(<<"C">>)}
    \cup {Cell(HeadCell(<<"C">>, k, "center", None, FALSE)) : k \in 2..MaxSpan}

\* Header rows of one or two cells
HeaderItems ==
    {<<c>> : c \in HeaderCells} \cup {<<c, e>> : c \in HeaderCells, e \in HeaderCells}

\* Table(data, row_labels, header) over the number of columns and the header,
\* append_header over the header rows, one render call
NextHeader ==
    \/ /\ phase = "new"
       /\ \E c \in 1..MaxColData,
             l \in {None, Some(Filled(1, 1, Str(<<"b">>)))},
             h \in {None} \cup {Some(items) : items \in HeaderItems} :
             Table__init__([DefaultArgs(Filled(1, c, Num(2))) EXCEPT
                               !.row_labels = l, !.header = h])
    \/ /\ phase = "ready"
       /\ \E items \in HeaderItems : AppendHeader(items)
    \/ RenderOn({"s1"})

SpecHeader == Init /\ [][NextHeader]_vars

\* Subheadings for add_subheading: plain ones at every row from -1 to MaxRow,
\* and styled ones before the first row
PlainSubHeading(r) == SubHeading(<<"T">>, r, "", "left", None, None)

SubHeadingChoices ==
    {PlainSubHeading(r) : r \in (0 - 1)..MaxRow}
    \cup {SubHeading(<<"T">>, 0, s, "left", None, None) : s \in {"Bold", "underline"}}
    \cup {SubHeading(<<"T">>, MaxRow, "underline", "left", None, None)}

\* Table(data, subheadings, linespacing) over the number of rows and the rows
\* of the annotations, add_subheading, one render call
NextAnnot ==
    \/ /\ phase = "new"
       /\ \E n \in 1..MaxRow,
             sh \in {None, Some(<<PlainSubHeading(0)>>),
                     Some(<<PlainSubHeading(MaxRow)>>),
                     Some(<<SubHeading(<<"T">>, 0, "Underline", "left",
                                       Some(<<"True">>), None)>>)},
             ls \in {None, Some(<<LineSpacing(0, "1em")>>),
                     Some(<<LineSpacing(MaxRow, "1em")>>)} :
             Table__init__([DefaultArgs(Filled(n, 1, Num(2))) EXCEPT
                               !.subheadings = sh, !.linespacing = ls])
    \/ /\ phase = "ready"
       /\ \E sh \in SubHeadingChoices : AddSubheading(<<sh>>)
    \/ RenderOn({"s1"})

SpecAnnot == Init /\ [][NextAnnot]_vars

\* Subheadings with rules and spacings, two of them before one row
RuledSubHeadings(r) ==
    <<SubHeading(<<"T">>, r, "", "left", Some(<<"True", "0.5pt">>),
                 Some(<<"1em", "2em">>)),
      SubHeading(<<"U">>, r, "Italic", "center", Some(<<"True">>), None)>>

\* Table(data, row_labels, subheadings, linespacing, sep, sep_every,
\* output_fmt) over the number of rows, the separator rows, booktabs and the
\* annotations; append_header; one render call
Next ==
    \/ /\ phase = "new"
       /\ \E n \in 1..MaxRow,
             l \in {0, 1},
             b \in BOOLEAN,
             sp \in {<<None, None>>, <<Some(<<1, 0, 1>>), None>>,
                     <<None, Some(2)>>},
             sh \in {None} \cup {Some(RuledSubHeadings(r)) : r \in {0, 1}},
             ls \in {None}
                    \cup {Some(<<LineSpacing(r, "1em"), LineSpacing(1, "3em"),
                                 LineSpacing(r, "2em")>>) : r \in {0, 1}} :
             Table__init__([DefaultArgs(Filled(n, 1, Num(2))) EXCEPT
                               !.row_labels = IF l = 1
                                              THEN Some(Filled(n, 1, Str(<<"b">>)))
                                              ELSE None,
                               !.output_fmt = TeXFormat(b, TRUE),
                               !.sep = sp[1], !.sep_every = sp[2],
                               !.subheadings = sh, !.linespacing = ls])
    \/ /\ phase = "ready"
       /\ \E items \in HeaderItems : AppendHeader(items)
    \/ RenderOn({"s1"})

Spec == Init /\ [][Next]_vars

\* The cells of the varied column of SpecCells
CellValues == {Num(0 - 1), Num(2), NaN, Str(<<"a", "%">>)}

CellData ==
    UNION {{[i \in 1..n |-> [j \in 1..c |->
                IF j = p THEN col[i]
                ELSE IF j % 2 = 0 THEN Num(0 - 3) ELSE Str(<<"%">>)]] :
               c \in 1..MaxColData, p \in 1..MaxColData,
               col \in [1..n -> CellValues]} :
           n \in 1..MaxRow}

\* A placeholder longer than any entry of fmt_list
LongPlaceholder == [i \in 1..(SgnFieldLen + ArrFieldLen + 4) |-> "-"]

\* Table(data, nan_char) over the cells and the placeholder; two render calls
NextCells ==
    \/ /\ phase = "new"
       /\ \E d \in CellData,
             nc \in {None, Some(<<"-", "-">>), Some(LongPlaceholder)} :
             Table__init__([DefaultArgs(d) EXCEPT !.nan_char = nc])
    \/ RenderOn(Sinks)

SpecCells == Init /\ [][NextCells]_vars

\* The values of HeadCell's sep argument
SepArgs == {None, Some(TRUE), Some(FALSE)}

\* A header cell of span k with the sep argument sa, and a placeholder cell
\* handed in by the caller with sep on
RuleCell(k, sa) == Cell(HeadCell(<<"C">>, k, "center", sa, FALSE))

GivenPlaceholder == Cell(HeadCell(<<"C">>, 1, "center", Some(TRUE), TRUE))

\* Header rows whose cells have sep absent, on and off
RuleItems ==
    {<<BareText(<<"C">>)>>,
     <<RuleCell(1, Some(TRUE))>>,
     <<RuleCell(2, None)>>,
     <<RuleCell(2, Some(FALSE))>>,
     <<RuleCell(MaxSpan, None)>>,
     <<BareText(<<"C">>), RuleCell(1, Some(TRUE))>>,
     <<RuleCell(1, Some(TRUE)), RuleCell(1, Some(TRUE))>>,
     <<RuleCell(1, Some(TRUE)), RuleCell(2, None)>>,
     <<RuleCell(2, None), RuleCell(1, None)>>,
     <<GivenPlaceholder, RuleCell(2, None)>>}

\* Table(data, row_labels, output_fmt) over the number of columns and the
\* options of the renderer, append_header over cells with and without rules,
\* one render call
NextRules ==
    \/ /\ phase = "new"
       /\ \E c \in 1..MaxColData,
             l \in {None, Some(Filled(1, 1, Str(<<"b">>)))},
             b \in BOOLEAN, tr \in BOOLEAN :
             Table__init__([DefaultArgs(Filled(1, c, Num(2))) EXCEPT
                               !.row_labels = l,
                               !.output_fmt = TeXFormat(b, tr)])
    \/ /\ phase = "ready"
       /\ \E items \in RuleItems : AppendHeader(items)
    \/ RenderOn({"s1"})

SpecRules == Init /\ [][NextRules]_vars

----------------------------------------------------------------------------
(* Claims about the horizontal rule arguments *)

\* {k-1, 2k-1, ...} below n
EveryRows(k, n) == {x \in 0..(n - 1) : (x + 1) % k = 0}

SepEveryResolved ==
    (phase = "ready" /\ args.sep = None /\ args.sep_every # None)
        => kwargs.sep = Some(EveryRows(args.sep_every[1], nrow))

(* C4: with sep absent, sep_every = k resolves the separator rows to
   {k-1, 2k-1, ...} below nrow, and with sep and sep_every both absent an
   integer sep_after = k resolves to that same set. *)
C4_SepAfterAsSepEvery ==
    /\ SepEveryResolved
    /\ (phase = "ready" /\ args.sep = None /\ args.sep_every = None
            /\ args.sep_after # None /\ args.sep_after[1].isint)
        => kwargs.sep = Some(EveryRows(args.sep_after[1].k, nrow))

----------------------------------------------------------------------------
(* Claims about the columns *)

\* Column j was given no format specifier by the caller
NoExplicitFmt(j) ==
    \/ args.fmt = None
    \/ j <= ncol_head /\ Len(as_list(args.fmt[1])) # ncol

\* The numeric-type flag is computed over the whole column
NumericFlagOverColumn ==
    phase = "ready" =>
        \A j \in DOMAIN columns :
            columns[j].isnumeric = (\A i \in 1..nrow : data[i][j].k # "str")

(* C5: every column without an explicit format specifier stores float_fmt if
   its numeric-type flag is true and str_fmt otherwise, the flag being true
   iff every cell of the column, over all rows, is a number. *)
C5_DefaultFmtFollowsFlag ==
    /\ NumericFlagOverColumn
    /\ phase = "ready" =>
        \A j \in DOMAIN columns :
            NoExplicitFmt(j) =>
                columns[j].fmt = (IF columns[j].isnumeric THEN args.float_fmt
                                  ELSE args.str_fmt)

\* What the code does instead: the first row alone decides the default format
DefaultFmtFollowsFirstRow ==
    phase = "ready" =>
        \A j \in DOMAIN columns :
            NoExplicitFmt(j) =>
                columns[j].fmt = (IF data[1][j].k # "str" THEN args.float_fmt
                                  ELSE args.str_fmt)

\* The number of label columns the arguments ask for, when their shape fits
LabelColumnsOf(a) ==
    IF a.row_labels = None THEN 0
    ELSE IF Len(a.row_labels[1]) = Len(a.data) THEN Len(a.row_labels[1][1])
    ELSE Len(a.row_labels[1])

LabelsFit(a) ==
    a.row_labels # None =>
        \/ Len(a.row_labels[1]) = Len(a.data)
        \/ Len(a.row_labels[1][1]) = Len(a.data)

ColumnAligns == [j \in DOMAIN columns |-> columns[j].align]

Lefts(n) == [j \in 1..n |-> "left"]

Rights(n) == [j \in 1..n |-> "right"]

Parsed(q) == [i \in DOMAIN q |-> Alignment_parse(q[i])]

\* The lengths of an align argument that broadcasting accepts
AlignLengthFits(L, nh, nd) == L = 1 \/ (L = nd /\ nh > 0) \/ L = nh + nd

(* C6: alignment broadcasting for an align input of length L: a single value
   A gives every data column A and every label column left; L = ncol_data
   with label columns gives left for the label columns followed by the list;
   L = ncol is used as given; align absent gives left for label columns and
   right for data columns; any other L raises the alignment length error.
   Without an error there are exactly ncol_head + ncol_data columns. *)
C6_AlignBroadcast ==
    /\ phase = "ready" =>
        /\ Len(columns) = ncol_head + ncol_data
        /\ args.align = None =>
              ColumnAligns = Lefts(ncol_head) \o Rights(ncol_data)
        /\ args.align # None =>
              LET q == Parsed(as_list(args.align[1]))
                  L == Len(q)
              IN /\ AlignLengthFits(L, ncol_head, ncol_data)
                 /\ L = 1 => ColumnAligns = Lefts(ncol_head)
                                  \o [j \in 1..ncol_data |-> q[1]]
                 /\ (L = ncol_data /\ ncol_head > 0) =>
                        ColumnAligns = Lefts(ncol_head) \o q
                 /\ L = ncol => ColumnAligns = q
    /\ (phase \in {"ready", "failed"} /\ LabelsFit(args) /\ args.align # None
            /\ ~AlignLengthFits(Len(as_list(args.align[1])),
                                LabelColumnsOf(args), Len(args.data[1])))
        => (phase = "failed" /\ error = "ValueError: alignment")

\* A table with label columns, built from a single alignment value
C6_Witness ==
    /\ phase = "ready"
    /\ args.align = Some(Scalar("c"))
    /\ ncol_head > 0
    /\ ncol_data > 1
    /\ ColumnAligns = <<"left", "center", "center">>

----------------------------------------------------------------------------
(* Claims about the header rows *)

(* C1: after construction and after any sequence of append_header calls,
   whether they returned or raised, every stored header row has a total span
   (the sum of its cells' spans, an inserted placeholder included) equal to
   ncol = ncol_head + ncol_data, and the span assertion of render never
   fails. *)
C1_HeaderSpansEqualNcol ==
    phase = "ready" =>
        /\ ncol = ncol_head + ncol_data
        /\ \A h \in DOMAIN header :
              /\ SumSpan(header[h].cells) = ncol
              /\ header[h].ncol = ncol
        /\ \A s \in Sinks : pc[s] # "AssertionError"
        /\ \A s \in Sinks : pc[s] # "idle" => Len(file[s]) > 0

\* Two header rows are stored, one of them with the inserted placeholder, a
\* render call got past its assertions, and an append_header raised
C1_Witness ==
    /\ phase = "ready"
    /\ Len(header) = 2
    /\ \E h \in DOMAIN header : header[h].cells[1].placeholder
    /\ error = "Exception: header"
    /\ pc["s1"] = "done"

\* The span a header item counts for: a bare text counts 1
SpanOf(c) == IF c.bare THEN 1 ELSE c.cell.span

RECURSIVE SumItems(_)
SumItems(items) ==
    IF items = <<>> THEN 0 ELSE SpanOf(items[1]) + SumItems(Tail(items))

\* The cells of a header argument as given
Given(items) ==
    [i \in DOMAIN items |->
        IF items[i].bare
        THEN [text |-> items[i].text, span |-> 1, align |-> "center",
              placeholder |-> FALSE, sep |-> FALSE]
        ELSE items[i].cell]

AppendHeaderPost(items) ==
    IF SumItems(items) = ncol
    THEN /\ error' = ""
         /\ Len(header') = Len(header) + 1
         /\ SubSeq(header', 1, Len(header)) = header
         /\ header'[Len(header')].cells = Given(items)
    ELSE IF ncol_head > 0 /\ SumItems(items) + ncol_head = ncol
    THEN /\ error' = ""
         /\ Len(header') = Len(header) + 1
         /\ SubSeq(header', 1, Len(header)) = header
         /\ LET cells == header'[Len(header')].cells
            IN /\ Len(cells) = Len(items) + 1
               /\ cells[1].placeholder
               /\ cells[1].span = ncol_head
               /\ Tail(cells) = Given(items)
    ELSE /\ error' = "Exception: header"
         /\ header' = header

(* C2: append_header(cells) with S the sum of the cells' spans (a bare text
   counts 1): if S = ncol the row is appended as given; else if ncol_head > 0
   and S + ncol_head = ncol the row is appended with exactly one leading
   placeholder of span ncol_head; otherwise the header error is raised and
   the list of header rows is left as it was. *)
C2_AppendHeaderCases ==
    [][\A items \in HeaderItems : AppendHeader(items) => AppendHeaderPost(items)]_vars

\* A row was appended with the inserted placeholder, and the next
\* append_header raised and left the one row in place
C2_Witness ==
    /\ phase = "ready"
    /\ error = "Exception: header"
    /\ Len(header) = 1
    /\ header[1].cells[1].placeholder
    /\ header[1].cells[1].span = ncol_head
    /\ Len(header[1].cells) = 3

----------------------------------------------------------------------------
(* Claims about the annotations *)

(* C7: in every table reached by construction and add_subheading calls, every
   stored SubHeading and every stored LineSpacing has its row in [0, nrow):
   one outside that range is rejected and never stored. *)
C7_AnnotationRowsInRange ==
    phase = "ready" =>
        /\ \A k \in DOMAIN subheadings : subheadings[k].row \in 0..(nrow - 1)
        /\ \A k \in DOMAIN linespacing : linespacing[k].row \in 0..(nrow - 1)

\* What the code does instead: an annotation of a row the table does not have
\* is stored, and a render call runs to its end without a line for it
AnnotationSkipped ==
    /\ pc["s1"] = "done"
    /\ \E k \in DOMAIN subheadings : subheadings[k].row >= nrow
    /\ \A k \in DOMAIN file["s1"] : file["s1"][k].row < nrow

----------------------------------------------------------------------------
(* Claims about the cells *)

\* A render call on sink s that has ended, by returning or by raising
Ended(s) == pc[s] \in {"done", "ValueError: style", "ValueError: format"}

(* C8: render leaves the table unchanged: data (the signs of negative cells
   and the NaN cells included), columns, header rows, subheadings, linespacing
   and separator rows are, during and after any render call, what
   construction made them; and render calls on the same table, one after
   another or interleaved on two sinks, each write the lines of a single
   render call run on its own. *)
C8_RenderLeavesTable ==
    phase = "ready" =>
        LET t == NewTable(args)
        IN /\ data = t.data
           /\ columns = t.columns
           /\ header = t.header
           /\ subheadings = t.subheadings
           /\ linespacing = t.linespacing
           /\ kwargs = t.kwargs
           /\ \A s \in Sinks :
                 Ended(s) => /\ file[s] = render(t).lines
                             /\ (pc[s] = "done") = (render(t).raised = "")
           /\ \A s \in Sinks :
                 ~Ended(s) =>
                    file[s] = SubSeq(render(t).lines, 1, Len(file[s]))

\* Two render calls returned on a table of two rows with a negative number and
\* a NaN in a numeric column
C8_Witness ==
    /\ \A s \in Sinks : pc[s] = "done"
    /\ file["s1"] = file["s2"]
    /\ nrow = 2
    /\ \E j \in DOMAIN columns :
          /\ columns[j].isnumeric
          /\ data[1][j].k = "num" /\ data[1][j].n < 0
          /\ np_isnan(data[2][j])

\* The sign part and the magnitude of the cells that are not replaced by the
\* placeholder, and the fields of the cells of the other columns
SignAndMagnitude(c, v, col) ==
    IF col.isnumeric
    THEN c = [sgn |-> IF v.k = "num" /\ v.n < 0 THEN "$-$" ELSE "",
              fmt |-> col.fmt,
              val |-> IF v.k = "num" /\ v.n < 0 THEN Num(0 - v.n) ELSE v]
    ELSE c.sgn = ""

(* C9: in a numeric column a NaN cell, when a placeholder is configured, has
   the placeholder as its whole field; every other cell has the sign part
   followed by the column's format applied to |v|, the sign part being the
   negative-sign glyph once when v < 0 and empty otherwise. Cells of
   non-numeric columns get no sign part. *)
C9_CellFields ==
    \A s \in Sinks : \A k \in DOMAIN file[s] :
        file[s][k].kind = "cells" =>
            \A j \in DOMAIN columns :
                LET v == data[file[s][k].row + 1][j]
                    c == file[s][k].cells[j]
                IN IF columns[j].isnumeric /\ np_isnan(v)
                        /\ kwargs.nan_char # None
                   THEN c = [lit |-> kwargs.nan_char[1]]
                   ELSE SignAndMagnitude(c, v, columns[j])

\* What the code does instead: the field holds the placeholder up to the
\* length of the longest entry of fmt_list
PlaceholderCutToWidth ==
    \A s \in Sinks : \A k \in DOMAIN file[s] :
        file[s][k].kind = "cells" =>
            \A j \in DOMAIN columns :
                LET v == data[file[s][k].row + 1][j]
                    c == file[s][k].cells[j]
                    w == SgnFieldLen + ArrFieldLen
                         + StrLen(columns[j].fmt)
                IN IF columns[j].isnumeric /\ np_isnan(v)
                        /\ kwargs.nan_char # None
                   THEN /\ Len(kwargs.nan_char[1]) <= w
                            => c = [lit |-> kwargs.nan_char[1]]
                        /\ Len(c.lit) <= Len(kwargs.nan_char[1])
                        /\ c.lit = SubSeq(kwargs.nan_char[1], 1, Len(c.lit))
                   ELSE SignAndMagnitude(c, v, columns[j])

----------------------------------------------------------------------------
(* Claims about the lines of a render call *)

\* The lines of kind in f, and those of them that belong to data row i
CountOf(f, kind) == Cardinality({k \in DOMAIN f : f[k].kind = kind})

CountIn(f, kind, i) ==
    Cardinality({k \in DOMAIN f : f[k].kind = kind /\ f[k].row = i})

\* Row i is among the separator rows
IsSeparatorRow(i) == kwargs.sep # None /\ i \in kwargs.sep[1]

\* The separator rules of the rows written so far, rules telling whether the
\* renderer draws rules at all
SeparatorRules(f, rules) ==
    \A k \in DOMAIN f :
        f[k].kind = "cells" =>
            LET i == f[k].row
            IN IF rules /\ IsSeparatorRow(i) /\ i # nrow - 1
               THEN /\ CountIn(f, "sep_midrule", i) = 1
                    /\ k + 1 \in DOMAIN f
                    /\ f[k + 1] = Line("sep_midrule", i, <<>>)
               ELSE CountIn(f, "sep_midrule", i) = 0

(* C3: during render, for every data row i: after row nrow-1 no separator
   rule is emitted even when it is among the separator rows; for every other
   i among the separator rows exactly one full rule is emitted, as the line
   right after the cell line of row i (before any LineSpacing of row i); for
   i not among the separator rows none is emitted. *)
C3_SeparatorRules ==
    \A s \in Sinks : SeparatorRules(file[s], TRUE)

(* C3 as amended: the above holds for a renderer with booktabs on, the
   default; with booktabs off no separator rule is emitted after any row. *)
C3_SeparatorRulesBooktabs ==
    \A s \in Sinks : SeparatorRules(file[s], renderer.booktabs)

\* A render call returned on a table of two rows, both among the separator
\* rows, with LineSpacing entries for the first: the rule after the first row
\* was written and none after the last
C3_Witness ==
    /\ pc["s1"] = "done"
    /\ renderer.booktabs
    /\ nrow = 2
    /\ IsSeparatorRow(0) /\ IsSeparatorRow(1)
    /\ \E k \in DOMAIN linespacing : linespacing[k].row = 0
    /\ CountIn(file["s1"], "sep_midrule", 0) = 1
    /\ CountIn(file["s1"], "sep_midrule", 1) = 0

\* The phase a line belongs to: opening, header rows, the header's full rule,
\* data rows, closing
LinePhase(l) ==
    CASE l.kind \in {"begin", "toprule"} -> 0
      [] l.kind \in {"hrow", "cmidrule"} -> 1
      [] l.kind = "midrule" -> 2
      [] l.kind \in {"bottomrule", "end"} -> 4
      [] OTHER -> 3

\* The place of a line among the lines of its data row
RowRank(l) ==
    CASE l.kind \in {"sh_addlinespace", "sh_midrule", "subheading"} -> 0
      [] l.kind = "cells" -> 1
      [] l.kind = "sep_midrule" -> 2
      [] OTHER -> 3

\* No line is followed by one of an earlier phase, an earlier row, or an
\* earlier place in its row
ForwardOrder(f) ==
    \A k \in 1..(Len(f) - 1) :
        /\ LinePhase(f[k]) <= LinePhase(f[k + 1])
        /\ (LinePhase(f[k]) = 3 /\ LinePhase(f[k + 1]) = 3) =>
              \/ f[k].row < f[k + 1].row
              \/ f[k].row = f[k + 1].row /\ RowRank(f[k]) <= RowRank(f[k + 1])

\* The opening directive and the top rule first, the bottom rule and the
\* closing directive last
OpensAndCloses(f, rules) ==
    /\ CountOf(f, "begin") = 1 /\ CountOf(f, "end") = 1
    /\ f[1].kind = "begin" /\ f[Len(f)].kind = "end"
    /\ IF rules
       THEN /\ CountOf(f, "toprule") = 1 /\ CountOf(f, "bottomrule") = 1
            /\ f[2].kind = "toprule" /\ f[Len(f) - 1].kind = "bottomrule"
       ELSE CountOf(f, "toprule") = 0 /\ CountOf(f, "bottomrule") = 0

\* Header row h has a cell that asks for a partial rule
DrawsRule(hrow) ==
    \E j \in DOMAIN hrow.cells : hrow.cells[j].sep /\ ~hrow.cells[j].placeholder

\* The header rows in append order, each followed by its partial rules, and
\* the one full rule after them
HeaderLines(f, rules) ==
    /\ CountOf(f, "hrow") = Len(header)
    /\ \A k \in DOMAIN f :
          f[k].kind = "hrow" =>
              LET h == Cardinality({m \in 1..k : f[m].kind = "hrow"})
              IN /\ h <= Len(header)
                 /\ Len(f[k].cells) = Len(header[h].cells)
                 /\ \A j \in DOMAIN f[k].cells :
                       /\ f[k].cells[j].text = tex_escape(header[h].cells[j].text)
                       /\ f[k].cells[j].span = header[h].cells[j].span
                 /\ (rules /\ DrawsRule(header[h]))
                       = (k + 1 \in DOMAIN f /\ f[k + 1].kind = "cmidrule")
    /\ \A k \in DOMAIN f : f[k].kind = "cmidrule" => f[k - 1].kind = "hrow"
    /\ CountOf(f, "midrule") = (IF rules /\ Len(header) >= 1 THEN 1 ELSE 0)

\* Every data row has its cell line once, a line for each of its subheadings
\* and LineSpacing entries, in their order, and at most one separator rule
DataLines(f) ==
    /\ \A k \in DOMAIN f : LinePhase(f[k]) = 3 => f[k].row \in 0..(nrow - 1)
    /\ \A i \in 0..(nrow - 1) :
          /\ CountIn(f, "cells", i) = 1
          /\ CountIn(f, "subheading", i) = Len(RowsEqual(subheadings, i))
          /\ CountIn(f, "addlinespace", i) = Len(RowsEqual(linespacing, i))
          /\ CountIn(f, "sep_midrule", i) <= 1
    /\ \A k \in DOMAIN f :
          f[k].kind = "subheading" =>
              LET q == Cardinality({m \in 1..k : f[m].kind = "subheading"
                                                  /\ f[m].row = f[k].row})
              IN f[k].cells[1].text = RowsEqual(subheadings, f[k].row)[q].text
    /\ \A k \in DOMAIN f :
          f[k].kind = "addlinespace" =>
              LET q == Cardinality({m \in 1..k : f[m].kind = "addlinespace"
                                                  /\ f[m].row = f[k].row})
              IN f[k].cells[1].height
                     = RowsEqual(linespacing, f[k].row)[q].height

OrderedOutput(f, rules) ==
    /\ ForwardOrder(f)
    /\ OpensAndCloses(f, rules)
    /\ HeaderLines(f, rules)
    /\ DataLines(f)
    /\ SeparatorRules(f, rules)

(* C10: every render call emits its lines in one forward order with no return
   to an earlier phase: the opening directive, the top rule; each header row
   in append order, each followed by its partial rules; one full rule if
   there is a header row and none otherwise; for i = 0..nrow-1 in ascending
   order the subheadings of row i, the cell line of row i, its separator rule
   if any, the LineSpacing entries of row i; the bottom rule and the closing
   directive as the last two lines. Each cell line is emitted once. *)
C10_OrderedOutput ==
    [][\A s \in Sinks : RenderEpilogue(s) => OrderedOutput(file'[s], TRUE)]_vars

(* C10 as amended: a render call that returns, on a renderer with booktabs
   on, emits its lines in that order; with booktabs off the order is the same
   with the top rule, the partial rules, the full rule of the header, the
   separator rules and the bottom rule left out. In every state, returned or
   not, the lines written so far are in forward order. *)
C10_OrderedOutputBooktabs ==
    /\ [](\A s \in Sinks : ForwardOrder(file[s]))
    /\ [][\A s \in Sinks :
            RenderEpilogue(s) => OrderedOutput(file'[s], renderer.booktabs)]_vars

\* A render call returned on a table of two rows with two header rows, one of
\* them with a partial rule, subheadings, LineSpacing entries and a separator
\* rule
C10_Witness ==
    /\ pc["s1"] = "done"
    /\ renderer.booktabs
    /\ nrow = 2
    /\ Len(header) = 2
    /\ CountOf(file["s1"], "hrow") = 2
    /\ CountOf(file["s1"], "cmidrule") = 1
    /\ CountOf(file["s1"], "midrule") = 1
    /\ CountOf(file["s1"], "subheading") = 2
    /\ CountOf(file["s1"], "addlinespace") >= 2
    /\ CountOf(file["s1"], "sep_midrule") = 1

----------------------------------------------------------------------------
(* Claims about the partial rules of the header *)

\* The cells of a header row that ask for a rule
RuleCellsOf(cells) ==
    {j \in DOMAIN cells : cells[j].sep /\ ~cells[j].placeholder}

\* The q-th of them, counted from the left
NthRuleCell(cells, q) ==
    CHOOSE j \in RuleCellsOf(cells) :
        Cardinality({m \in RuleCellsOf(cells) : m <= j}) = q

\* draw_rule of a new HeadCell: on by default iff span > 1, else as given
DrawRuleDefault ==
    \A k \in 1..MaxSpan, sa \in SepArgs, p \in BOOLEAN :
        HeadCell(<<"C">>, k, "center", sa, p).sep
            = (IF sa = None THEN k > 1 ELSE sa[1])

\* The partial rules written after the header rows so far, rules telling
\* whether the renderer draws rules at all
PartialRules(f, rules) ==
    \A k \in DOMAIN f :
        f[k].kind = "hrow" =>
            LET h == Cardinality({m \in 1..k : f[m].kind = "hrow"})
                cells == header[h].cells
                want == IF rules THEN RuleCellsOf(cells) ELSE {}
                has == k + 1 \in DOMAIN f /\ f[k + 1].kind = "cmidrule"
            IN /\ has = (want # {})
               /\ has =>
                    LET r == f[k + 1].cells
                    IN /\ Len(r) = Cardinality(want)
                       /\ \A q \in DOMAIN r :
                             LET j == NthRuleCell(cells, q)
                             IN /\ r[q].lo = 1 + SumSpan(SubSeq(cells, 1, j - 1))
                                /\ r[q].hi = SumSpan(SubSeq(cells, 1, j))
                                /\ r[q].lo >= 1 /\ r[q].hi <= ncol
                       /\ \A q \in DOMAIN r : \A u \in DOMAIN r :
                             q < u => r[q].hi < r[u].lo

(* C11: for every header row the partial rules emitted after it are exactly
   one per cell whose draw_rule is true and which is not a placeholder, the
   rule of a cell covering the columns from 1 + the spans of the cells to its
   left up to the spans up to and including it; draw_rule is true by default
   iff span > 1 and otherwise as given; a placeholder never yields a rule;
   the ranges of one row never overlap and never exceed ncol. *)
C11_PartialRules ==
    /\ DrawRuleDefault
    /\ \A s \in Sinks : PartialRules(file[s], TRUE)

(* C11 as amended: the above holds for a renderer with booktabs on, the
   default; with booktabs off no partial rule is emitted after any header
   row. *)
C11_PartialRulesBooktabs ==
    /\ DrawRuleDefault
    /\ \A s \in Sinks : PartialRules(file[s], renderer.booktabs)

\* A header row of three columns was rendered with two rules, under a cell of
\* span 1 with sep on and under a cell of span 2, and another with a
\* placeholder with sep on and no rule for it
C11_Witness ==
    /\ pc["s1"] = "done"
    /\ renderer.booktabs
    /\ ncol = 3
    /\ \E k \in DOMAIN file["s1"] :
          /\ file["s1"][k].kind = "cmidrule"
          /\ Len(file["s1"][k].cells) = 2
          /\ file["s1"][k].cells[1].lo = 1 /\ file["s1"][k].cells[1].hi = 1
          /\ file["s1"][k].cells[2].lo = 2 /\ file["s1"][k].cells[2].hi = 3
    /\ \E h \in DOMAIN header : \E j \in DOMAIN header[h].cells :
          header[h].cells[j].placeholder /\ header[h].cells[j].sep

----------------------------------------------------------------------------
(* Claims about the styles of subheadings *)

\* A style other than none, italic and bold
Unsupported(sh) == sh.style \notin {"", "italic", "bold"}

\* Some subheading of row i has an unsupported style
UnsupportedAt(i) ==
    \E k \in DOMAIN subheadings :
        Unsupported(subheadings[k]) /\ subheadings[k].row = i

\* The steps at which the style error is raised: in the data phase, at the
\* row of an unsupported subheading and before the cells of that row, and
\* never by construction or add_subheading
StyleErrorSteps ==
    /\ \A s \in Sinks :
          (RenderData(s) /\ UnsupportedAt(row[s]))
              => pc'[s] = "ValueError: style"
    /\ \A s \in Sinks :
          (pc[s] # "ValueError: style" /\ pc'[s] = "ValueError: style") =>
              /\ pc[s] = "data"
              /\ UnsupportedAt(row[s])
              /\ CountIn(file'[s], "cells", row[s]) = 0
    /\ error' # "ValueError: style"

(* C12: rendering a table that holds a subheading whose style is not none,
   italic or bold raises the style error during the data phase of that render
   call, at the subheading's row and before that row's cells are emitted, and
   the call does not return normally; subheadings with style none, italic or
   bold never raise it, and construction and add_subheading never raise
   it. *)
C12_UnsupportedStyleRaises ==
    [][/\ StyleErrorSteps
       /\ \A s \in Sinks :
             RenderEpilogue(s) =>
                 \A k \in DOMAIN subheadings : ~Unsupported(subheadings[k])]_vars

\* What the code does instead: a render call returns normally exactly when no
\* unsupported subheading belongs to a row the table has
StyleErrorForRowsOfTheTable ==
    [][/\ StyleErrorSteps
       /\ \A s \in Sinks :
             RenderEpilogue(s) =>
                 \A i \in 0..(nrow - 1) : ~UnsupportedAt(i)]_vars

\* A render call returned on a table that holds an unsupported subheading
UnsupportedStyleRendered ==
    /\ pc["s1"] = "done"
    /\ \E k \in DOMAIN subheadings :
          Unsupported(subheadings[k]) /\ subheadings[k].row >= nrow
    /\ Len(file["s1"]) > 0

\* A render call raised the style error after the rule above the subheading
\* was written
StyleErrorRaised ==
    /\ pc["s1"] = "ValueError: style"
    /\ CountOf(file["s1"], "sh_midrule") = 1
    /\ CountOf(file["s1"], "cells") = 0

====
